---- MODULE Spec2Model ----
(***************************************************************************)
(* A model of tools/make_webshots.py: the top-level run (__main__), the    *)
(* per-dandiset page visit procedure (process_dandiset) with its trial     *)
(* loop and exception handlers, and the aggregate statistics table.        *)
(*                                                                         *)
(* Python values that can be a float or a str are records tagged with      *)
(* their runtime type.  Elapsed times are integer milliseconds; str values *)
(* are sequences of characters so that rstrip() can act on them.           *)
(***************************************************************************)
EXTENDS Integers, Sequences, FiniteSets, TLC

VARIABLES
    pc,          \* position of the single thread of control
    argv,        \* sys.argv[1:]
    dandisets,   \* __main__: dandisets
    doreadme,    \* __main__: doreadme
    idx,         \* __main__: position of `for ds in dandisets` (1-based)
    step,        \* process_dandiset: position of the step loop (1-based)
    trial,       \* process_dandiset: iterations of `for trial in range(3)` begun
    t,           \* process_dandiset: t
    raised,      \* the exception raised by the current attempt, if any
    times,       \* process_dandiset: info['times']
    stats,       \* process_dandiset: stats (and __main__: stats)
    allstats,    \* __main__: allstats
    readme,      \* __main__: readme (the per-dandiset sections)
    info_yaml,   \* the persisted <ds>/info.yaml files
    readme_md,   \* the README.md file
    driver,      \* __main__: driver (0: not assigned, k: the k-th session)
    nsessions,   \* number of webdriver.Chrome sessions constructed so far
    live,        \* constructed sessions on which quit() was not called
    pngs,        \* the screenshot files <ds>/<page>.png that exist
    queried,     \* the identifiers the catalog query returned, if it was made
    login        \* login(): what was read from and done to the login pages

vars == <<pc, argv, dandisets, doreadme, idx, step, trial, t, raised, times,
          stats, allstats, readme, info_yaml, readme_md, driver, nsessions, live,
          pngs, queried, login>>

----------------------------------------------------------------------------
(* Bounds of the model *)

\* largest number of positional arguments
MaxArgs == 1

\* the dandiset identifiers, in the order sorted() gives them
DandisetIds == <<"000001", "000002">>

Dandisets == {DandisetIds[i] : i \in 1..Len(DandisetIds)}

\* elapsed times (milliseconds) a clean attempt may measure
Elapsed == {40, 1734}

\* str(exc) of the unexpected exceptions the driver calls may raise
Messages == { <<>>,
              <<"t", "i", "m", "e", "o", "u", "t", "\n">>,
              <<"x">> }

\* the texts the login button may show
LoginLabels == { <<"L", "o", "g", " ", "I", "n">>,
                 <<" ", "L", "O", "G", " ", "I", "N", "\n">>,
                 <<"S", "i", "g", "n", " ", "i", "n">>,
                 <<"L", "o", "g", "i", "n">> }

----------------------------------------------------------------------------
(* Values *)

PAGES == <<"landing", "edit-metadata", "view-data">>

\* for trial in range(3)
MaxTrials == 3

Float(v) == [type |-> "float", v |-> v]

Str(s) == [type |-> "str", s |-> s]

Unbound == [type |-> "unbound"]

TIMEOUT == Str(<<"t", "i", "m", "e", "o", "u", "t">>)

NoFile == [exists |-> FALSE]

\* the characters str.rstrip() removes
Whitespace == {" ", "\t", "\n", "\r", "\f"}

RECURSIVE rstrip(_)
rstrip(s) ==
    IF s # <<>> /\ s[Len(s)] \in Whitespace
    THEN rstrip(SubSeq(s, 1, Len(s) - 1))
    ELSE s

\* exceptions: TimeoutException is a subclass of WebDriverException, which is
\* a subclass of Exception
NoExc == [cls |-> "None", msg |-> <<>>, at |-> "none"]

Exc(cls, msg, at) == [cls |-> cls, msg |-> msg, at |-> at]

IsTimeoutException(exc) == exc.cls = "TimeoutException"

IsWebDriverException(exc) == exc.cls \in {"TimeoutException", "WebDriverException"}

\* what a call into the driver may raise
Raisable(at) ==
    {Exc("TimeoutException", <<>>, at), Exc("WebDriverException", <<>>, at)}
    \cup {Exc("Exception", m, at) : m \in Messages}

None == [some |-> FALSE]

Some(v) == [some |-> TRUE, v |-> v]

\* the step specifications of process_dandiset: (urlsuf, page, wait, act)
StepSpecs ==
    << [urlsuf |-> Some(""), page |-> "landing",
        wait |-> "v-progress-circular", act |-> None],
       [urlsuf |-> None, page |-> "edit-metadata",
        wait |-> "v-progress-circular", act |-> Some("click_edit")],
       [urlsuf |-> Some("/draft/files"), page |-> "view-data",
        wait |-> "v-progress-linear", act |-> None] >>

LoadStat(ds, spec, time) ==
    [dandiset |-> ds,
     page     |-> spec.page,
     time     |-> time,
     label    |-> IF spec.page = "edit-metadata" THEN "Edit Metadata" ELSE "Go to page",
     url      |-> IF spec.urlsuf # None THEN Some(<<ds, spec.urlsuf.v>>) ELSE None]

has_time(st) == st.time.type = "float"

\* sorted(x['identifier'] for x in results)
sorted(S) == SelectSeq(DandisetIds, LAMBDA d : d \in S)

\* page_name.with_suffix('.png') of dandiset d and page p
png(d, p) == <<d, p>>

\* the screenshot files of the run's dandisets
AllPngs == {png(d, PAGES[i]) : d \in Dandisets, i \in 1..Len(PAGES)}

\* nothing read from or done to the login pages
NoLogin == [label |-> <<>>, clicked |-> FALSE, credentials |-> FALSE,
            submitted |-> FALSE, authorized |-> 0, i |-> 0]

\* the screenshots earlier runs may have left: those of any set of dandisets
StaleSets == {{f \in AllPngs : f[1] \in D} : D \in SUBSET Dandisets}

UpperCase == <<"A", "B", "C", "D", "E", "F", "G", "H", "I", "J", "K", "L", "M",
               "N", "O", "P", "Q", "R", "S", "T", "U", "V", "W", "X", "Y", "Z">>

LowerCase == <<"a", "b", "c", "d", "e", "f", "g", "h", "i", "j", "k", "l", "m",
               "n", "o", "p", "q", "r", "s", "t", "u", "v", "w", "x", "y", "z">>

\* str.lower()
lower(s) ==
    [k \in 1..Len(s) |->
        IF \E n \in 1..26 : UpperCase[n] = s[k]
        THEN LowerCase[CHOOSE n \in 1..26 : UpperCase[n] = s[k]]
        ELSE s[k]]

RECURSIVE lstrip(_)
lstrip(s) == IF s # <<>> /\ Head(s) \in Whitespace THEN lstrip(Tail(s)) ELSE s

\* str.strip()
strip(s) == lstrip(rstrip(s))

\* sub in s
contains(sub, s) ==
    \E k \in 0..(Len(s) - Len(sub)) : SubSeq(s, k + 1, k + Len(sub)) = sub

\* the text "log in" the login button is expected to show
LOG_IN == <<"l", "o", "g", " ", "i", "n">>

\* sequences over S of length lo..hi
SeqsOf(S, lo, hi) == UNION {[1..n -> S] : n \in lo..hi}

----------------------------------------------------------------------------
(* The run *)

Init ==
    /\ pc = "start"
    /\ argv \in SeqsOf(Dandisets, 0, MaxArgs)
    /\ dandisets = <<>>
    /\ doreadme = FALSE
    /\ idx = 1
    /\ step = 1
    /\ trial = 0
    /\ t = Unbound
    /\ raised = NoExc
    /\ times = <<>>
    /\ stats = <<>>
    /\ allstats = <<>>
    /\ readme = <<>>
    /\ info_yaml = [d \in Dandisets |-> NoFile]
    /\ readme_md = NoFile
    /\ driver = 0
    /\ nsessions = 0
    /\ live = {}
    /\ pngs \in StaleSets
    /\ queried = None
    /\ login = NoLogin

\* __main__: positional arguments given
UseArgs ==
    /\ pc = "start"
    /\ Len(argv) > 0
    /\ dandisets' = argv
    /\ doreadme' = FALSE
    /\ pc' = "driver"
    /\ UNCHANGED <<argv, idx, step, trial, t, raised, times, stats, allstats,
                   readme, info_yaml, readme_md, driver, nsessions, live,
                   pngs, queried, login>>

\* __main__: no positional arguments, the catalog is queried
GetDandisets ==
    /\ pc = "start"
    /\ Len(argv) = 0
    /\ \/ \E cat \in SUBSET Dandisets :
             /\ queried' = Some(cat)
             /\ dandisets' = sorted(cat)
             /\ doreadme' = TRUE
             /\ pc' = "driver"
             /\ raised' = raised
       \/ \E exc \in Raisable("get_dandisets") :
             /\ exc.cls = "Exception"
             /\ raised' = exc
             /\ pc' = "aborted"
             /\ UNCHANGED <<dandisets, doreadme, queried>>
    /\ UNCHANGED <<argv, idx, step, trial, t, times, stats, allstats,
                   readme, info_yaml, readme_md, driver, nsessions, live,
                   pngs, login>>

\* a call of login() or get_ready_driver() raises: login re-raises what it
\* catches, and the exception propagates out of get_ready_driver
Propagate(at) ==
    \E exc \in Raisable(at) :
        /\ raised' = exc
        /\ pc' = "aborted"

\* get_ready_driver: driver = webdriver.Chrome(options=options)
ConstructDriver ==
    /\ pc = "driver"
    /\ \/ /\ nsessions' = nsessions + 1
          /\ live' = live \cup {nsessions + 1}
          /\ pc' = "login"
          /\ raised' = raised
       \/ /\ Propagate("Chrome")
          /\ UNCHANGED <<nsessions, live>>
    /\ UNCHANGED <<argv, dandisets, doreadme, idx, step, trial, t, times, stats,
                   allstats, readme, info_yaml, readme_md, pngs, queried, driver, login>>

\* login: driver.get(ARCHIVE_GUI); wait_no_progressbar(driver, ...)
LoginOpen ==
    /\ pc = "login"
    /\ \/ /\ pc' = "login_button"
          /\ raised' = raised
       \/ Propagate("login")
    /\ UNCHANGED <<argv, dandisets, doreadme, idx, step, trial, t, times, stats,
                   allstats, readme, info_yaml, readme_md, pngs, queried, driver, nsessions, live, login>>

\* LoginButton with the text of the button compared as it is shown
LoginButton_case_sensitive ==
    /\ pc = "login_button"
    /\ \E label \in LoginLabels :
          LET login_text == strip(label)
          IN  IF contains(LOG_IN, login_text)
              THEN /\ login' = [login EXCEPT !.label = label, !.clicked = TRUE]
                   /\ pc' = "login_form"
                   /\ raised' = raised
              ELSE /\ login' = [login EXCEPT !.label = label]
                   /\ raised' = Exc("AssertionError", <<>>, "login")
                   /\ pc' = "aborted"
    /\ UNCHANGED <<argv, dandisets, doreadme, idx, step, trial, t, times, stats,
                   allstats, readme, info_yaml, readme_md, pngs, queried, driver, nsessions, live>>

\* login: the login button is found, its text is read and checked, and the
\* button is clicked
LoginButton ==
    /\ pc = "login_button"
    /\ \E label \in LoginLabels :
          LET login_text == lower(strip(label))
          IN  IF contains(LOG_IN, lower(login_text))
              THEN /\ login' = [login EXCEPT !.label = label, !.clicked = TRUE]
                   /\ pc' = "login_form"
                   /\ raised' = raised
              ELSE /\ login' = [login EXCEPT !.label = label]
                   /\ raised' = Exc("AssertionError", <<>>, "login")
                   /\ pc' = "aborted"
    /\ UNCHANGED <<argv, dandisets, doreadme, idx, step, trial, t, times, stats,
                   allstats, readme, info_yaml, readme_md, pngs, queried, driver, nsessions, live>>

\* login: wait for the login field, enter the credentials, submit the form
LoginForm ==
    /\ pc = "login_form"
    /\ \/ /\ login' = [login EXCEPT !.credentials = TRUE, !.submitted = TRUE, !.i = 0]
          /\ pc' = "login_authorize"
          /\ raised' = raised
       \/ /\ Propagate("login")
          /\ login' = login
    /\ UNCHANGED <<argv, dandisets, doreadme, idx, step, trial, t, times, stats,
                   allstats, readme, info_yaml, readme_md, pngs, queried, driver, nsessions, live>>

\* the iterations of `for i in range(2)`
AuthorizeRange == 2

\* login: for i in range(2): wait for the Authorize input or the avatar;
\* click the input, or leave the loop at the avatar
LoginAuthorize ==
    /\ pc = "login_authorize"
    /\ IF login.i < AuthorizeRange
       THEN \/ \E tag_name \in {"input", "div"} :
                 /\ raised' = raised
                 /\ IF tag_name = "input"
                    THEN /\ login' = [login EXCEPT !.authorized = @ + 1, !.i = @ + 1]
                         /\ pc' = pc
                    ELSE /\ login' = login
                         /\ pc' = "login_done"
            \/ /\ Propagate("login")
               /\ login' = login
       ELSE /\ pc' = "login_done"
            /\ UNCHANGED <<login, raised>>
    /\ UNCHANGED <<argv, dandisets, doreadme, idx, step, trial, t, times, stats,
                   allstats, readme, info_yaml, readme_md, pngs, queried, driver, nsessions, live>>

\* get_ready_driver: driver.get(ARCHIVE_GUI); return driver    (the session
\* leaves the login pages)
WarmUp ==
    /\ pc = "login_done"
    /\ \/ /\ driver' = nsessions
          /\ login' = NoLogin
          /\ pc' = "loop"
          /\ raised' = raised
       \/ /\ Propagate("warm_up")
          /\ UNCHANGED <<driver, login>>
    /\ UNCHANGED <<argv, dandisets, doreadme, idx, step, trial, t, times, stats,
                   allstats, readme, info_yaml, readme_md, pngs, queried, nsessions, live>>

\* get_ready_driver, with the login it makes
get_ready_driver ==
    \/ ConstructDriver
    \/ LoginOpen
    \/ LoginButton
    \/ LoginForm
    \/ LoginAuthorize
    \/ WarmUp

\* EnterTarget with a session constructed for each dandiset
EnterTarget_new_session ==
    /\ pc = "loop"
    /\ idx <= Len(dandisets)
    /\ nsessions' = nsessions + 1
    /\ live' = live \cup {nsessions + 1}
    /\ driver' = nsessions + 1
    /\ times' = <<>>
    /\ stats' = <<>>
    /\ step' = 1
    /\ trial' = 0
    /\ t' = Unbound
    /\ pc' = "trial"
    /\ UNCHANGED <<argv, dandisets, doreadme, idx, raised, allstats, readme,
                   info_yaml, readme_md, pngs, queried, login>>

\* __main__: for ds in dandisets; process_dandiset up to the step loop
EnterTarget ==
    /\ pc = "loop"
    /\ idx <= Len(dandisets)
    /\ times' = <<>>
    /\ stats' = <<>>
    /\ step' = 1
    /\ trial' = 0
    /\ t' = Unbound
    /\ pc' = "trial"
    /\ UNCHANGED <<argv, dandisets, doreadme, idx, raised, allstats, readme,
                   info_yaml, readme_md, driver, nsessions, live,
                   pngs, queried, login>>

ds == dandisets[idx]

spec == StepSpecs[step]

\* TrialLoop with unlink(): a missing file raises FileNotFoundError, before
\* the try block
TrialLoop_unlink_strict ==
    /\ pc = "trial"
    /\ IF trial < MaxTrials
       THEN IF png(dandisets[idx], StepSpecs[step].page) \in pngs
            THEN /\ pngs' = pngs \ {png(dandisets[idx], StepSpecs[step].page)}
                 /\ pc' = "navigate"
                 /\ trial' = trial + 1
                 /\ raised' = NoExc
            ELSE /\ raised' = Exc("Exception", <<>>, "unlink")
                 /\ pc' = "aborted"
                 /\ UNCHANGED <<trial, pngs>>
       ELSE /\ pc' = "record"
            /\ UNCHANGED <<trial, raised, pngs>>
    /\ UNCHANGED <<argv, dandisets, doreadme, idx, step, t, times, stats,
                   allstats, readme, info_yaml, readme_md, driver, nsessions,
                   live, queried, login>>

\* TrialLoop without the unlink: the screenshot of an earlier run stays
TrialLoop_keep_stale ==
    /\ pc = "trial"
    /\ IF trial < MaxTrials
       THEN /\ pc' = "navigate"
            /\ trial' = trial + 1
            /\ raised' = NoExc
       ELSE /\ pc' = "record"
            /\ UNCHANGED <<trial, raised>>
    /\ UNCHANGED <<argv, dandisets, doreadme, idx, step, t, times, stats,
                   allstats, readme, info_yaml, readme_md, driver, nsessions,
                   live, pngs, queried, login>>

\* for trial in range(3): page_name.with_suffix('.png').unlink(missing_ok=True),
\* take t0, enter the try.  When the range is exhausted the loop ends without
\* assigning t.
TrialLoop ==
    /\ pc = "trial"
    /\ IF trial < MaxTrials
       THEN /\ pngs' = pngs \ {png(ds, spec.page)}
            /\ pc' = "navigate"
            /\ trial' = trial + 1
            /\ raised' = NoExc
       ELSE /\ pc' = "record"
            /\ UNCHANGED <<trial, raised, pngs>>
    /\ UNCHANGED <<argv, dandisets, doreadme, idx, step, t, times, stats,
                   allstats, readme, info_yaml, readme_md, driver, nsessions, live,
                   queried, login>>

\* a call made inside the try block at position `at`: it returns, and control
\* goes to `next`, or it raises, and control goes to the except clauses
TryCall(at, next) ==
    /\ \/ /\ pc' = next
          /\ raised' = raised
       \/ \E exc \in Raisable(at) :
             /\ raised' = exc
             /\ pc' = "except"
    /\ UNCHANGED <<argv, dandisets, doreadme, idx, step, trial, t, times, stats,
                   allstats, readme, info_yaml, readme_md, driver, nsessions, live,
                   pngs, queried, login>>

\* if urlsuf is not None: driver.get(...)
Navigate ==
    /\ pc = "navigate"
    /\ IF spec.urlsuf # None
       THEN TryCall("navigate", "act")
       ELSE /\ pc' = "act"
            /\ UNCHANGED <<argv, dandisets, doreadme, idx, step, trial, t, raised,
                           times, stats, allstats, readme, info_yaml, readme_md,
                           driver, nsessions, live,
                   pngs, queried, login>>

\* if act: act()    (click_edit: a 3 s wait for clickability, then a click)
Act ==
    /\ pc = "act"
    /\ IF spec.act # None
       THEN TryCall("act", "wait")
       ELSE /\ pc' = "wait"
            /\ UNCHANGED <<argv, dandisets, doreadme, idx, step, trial, t, raised,
                           times, stats, allstats, readme, info_yaml, readme_md,
                           driver, nsessions, live,
                   pngs, queried, login>>

\* if wait: wait()    (wait_no_progressbar)
Wait ==
    /\ pc = "wait"
    /\ TryCall("wait", "else")

\* ExceptTimeout with `continue` in place of `break`
ExceptTimeout_continue ==
    /\ pc = "except"
    /\ IsTimeoutException(raised)
    /\ t' = TIMEOUT
    /\ pc' = "trial"
    /\ UNCHANGED <<argv, dandisets, doreadme, idx, step, trial, raised, times, stats,
                   allstats, readme, info_yaml, readme_md, driver, nsessions, live,
                   pngs, queried, login>>

\* except TimeoutException: t = 'timeout'; break
ExceptTimeout ==
    /\ pc = "except"
    /\ IsTimeoutException(raised)
    /\ t' = TIMEOUT
    /\ pc' = "record"
    /\ UNCHANGED <<argv, dandisets, doreadme, idx, step, trial, raised, times, stats,
                   allstats, readme, info_yaml, readme_md, driver, nsessions, live,
                   pngs, queried, login>>

\* ExceptWebDriver with the except clauses in the wrong order: a
\* TimeoutException is caught as the WebDriverException it also is
ExceptWebDriver_first ==
    /\ pc = "except"
    /\ IsWebDriverException(raised)
    /\ pc' = "aborted"
    /\ UNCHANGED <<argv, dandisets, doreadme, idx, step, trial, t, raised, times,
                   stats, allstats, readme, info_yaml, readme_md, driver, nsessions,
                   live,
                   pngs, queried, login>>

\* ExceptWebDriver without the raise: the session is reinitialized and the
\* step is tried again
ExceptWebDriver_retry ==
    /\ pc = "except"
    /\ ~IsTimeoutException(raised)
    /\ IsWebDriverException(raised)
    /\ t' = Str(rstrip(raised.msg))
    /\ nsessions' = nsessions + 1
    /\ live' = live \cup {nsessions + 1}
    /\ driver' = nsessions + 1
    /\ pc' = "trial"
    /\ UNCHANGED <<argv, dandisets, doreadme, idx, step, trial, raised, times,
                   stats, allstats, readme, info_yaml, readme_md,
                   pngs, queried, login>>

\* except WebDriverException as exc: raise    (the statements after the raise
\* are never executed)
ExceptWebDriver ==
    /\ pc = "except"
    /\ ~IsTimeoutException(raised)
    /\ IsWebDriverException(raised)
    /\ pc' = "aborted"
    /\ UNCHANGED <<argv, dandisets, doreadme, idx, step, trial, t, raised, times,
                   stats, allstats, readme, info_yaml, readme_md, driver, nsessions,
                   live,
                   pngs, queried, login>>

\* except Exception as exc: t = str(exc).rstrip(); break
ExceptException ==
    /\ pc = "except"
    /\ ~IsTimeoutException(raised)
    /\ ~IsWebDriverException(raised)
    /\ t' = Str(rstrip(raised.msg))
    /\ pc' = "record"
    /\ UNCHANGED <<argv, dandisets, doreadme, idx, step, trial, raised, times, stats,
                   allstats, readme, info_yaml, readme_md, driver, nsessions, live,
                   pngs, queried, login>>

\* else: t = time.monotonic() - t0; time.sleep(2)
Else ==
    /\ pc = "else"
    /\ \E e \in Elapsed : t' = Float(e)
    /\ pc' = "screenshot"
    /\ UNCHANGED <<argv, dandisets, doreadme, idx, step, trial, raised, times, stats,
                   allstats, readme, info_yaml, readme_md, driver, nsessions, live,
                   pngs, queried, login>>

\* driver.save_screenshot(str(page_name.with_suffix('.png'))); break.  The else
\* block is outside the except clauses: what save_screenshot raises propagates
\* out of process_dandiset.
SaveScreenshot ==
    /\ pc = "screenshot"
    /\ \/ /\ pngs' = pngs \cup {png(ds, spec.page)}
          /\ pc' = "record"
          /\ raised' = raised
       \/ \E exc \in Raisable("save_screenshot") :
             /\ raised' = exc
             /\ pc' = "aborted"
             /\ pngs' = pngs
    /\ UNCHANGED <<argv, dandisets, doreadme, idx, step, trial, t, times, stats,
                   allstats, readme, info_yaml, readme_md, driver, nsessions, live,
                   queried, login>>

\* RecordStep with `times[page] = t` made only for a measured time
RecordStep_float_only ==
    /\ pc = "record"
    /\ IF t = Unbound
       THEN /\ pc' = "aborted"
            /\ raised' = Exc("Exception", <<>>, "record")
            /\ UNCHANGED <<times, stats, step, trial>>
       ELSE /\ times' = IF t.type = "float" THEN (spec.page :> t) @@ times ELSE times
            /\ stats' = Append(stats, LoadStat(ds, spec, t))
            /\ raised' = NoExc
            /\ IF step < Len(StepSpecs)
               THEN /\ step' = step + 1
                    /\ trial' = 0
                    /\ pc' = "trial"
               ELSE /\ pc' = "write"
                    /\ UNCHANGED <<step, trial>>
    /\ UNCHANGED <<argv, dandisets, doreadme, idx, t, allstats, readme, info_yaml,
                   readme_md, driver, nsessions, live,
                   pngs, queried, login>>

\* RecordStep with info.yaml dumped after every step
RecordStep_dump_each ==
    /\ pc = "record"
    /\ IF t = Unbound
       THEN /\ pc' = "aborted"
            /\ raised' = Exc("Exception", <<>>, "record")
            /\ UNCHANGED <<times, stats, step, trial, info_yaml>>
       ELSE /\ times' = (spec.page :> t) @@ times
            /\ stats' = Append(stats, LoadStat(ds, spec, t))
            /\ info_yaml' = [info_yaml EXCEPT ![ds] = [exists |-> TRUE, times |-> times']]
            /\ raised' = NoExc
            /\ IF step < Len(StepSpecs)
               THEN /\ step' = step + 1
                    /\ trial' = 0
                    /\ pc' = "trial"
               ELSE /\ pc' = "write"
                    /\ UNCHANGED <<step, trial>>
    /\ UNCHANGED <<argv, dandisets, doreadme, idx, t, allstats, readme, readme_md,
                   driver, nsessions, live, pngs, queried, login>>

\* times[page] = t; stats.append(LoadStat(...)); next step
RecordStep ==
    /\ pc = "record"
    /\ IF t = Unbound
       THEN \* UnboundLocalError
            /\ pc' = "aborted"
            /\ raised' = Exc("Exception", <<>>, "record")
            /\ UNCHANGED <<times, stats, step, trial>>
       ELSE /\ times' = (spec.page :> t) @@ times
            /\ stats' = Append(stats, LoadStat(ds, spec, t))
            /\ raised' = NoExc
            /\ IF step < Len(StepSpecs)
               THEN /\ step' = step + 1
                    /\ trial' = 0
                    /\ pc' = "trial"
               ELSE /\ pc' = "write"
                    /\ UNCHANGED <<step, trial>>
    /\ UNCHANGED <<argv, dandisets, doreadme, idx, t, allstats, readme, info_yaml,
                   readme_md, driver, nsessions, live,
                   pngs, queried, login>>

\* with (dspath / 'info.yaml').open('w') as f: yaml.safe_dump(info, f);
\* return stats    (the local t ends with the call)
WriteInfo ==
    /\ pc = "write"
    /\ info_yaml' = [info_yaml EXCEPT ![ds] = [exists |-> TRUE, times |-> times]]
    /\ t' = Unbound
    /\ pc' = "returned"
    /\ UNCHANGED <<argv, dandisets, doreadme, idx, step, trial, raised, times,
                   stats, allstats, readme, readme_md, driver, nsessions, live,
                   pngs, queried, login>>

----------------------------------------------------------------------------
(* Rendering *)

Digits == <<"0", "1", "2", "3", "4", "5", "6", "7", "8", "9">>

\* the decimal digits of a natural number
RECURSIVE DecStr(_)
DecStr(n) ==
    IF n < 10 THEN <<Digits[n + 1]>>
    ELSE Append(DecStr(n \div 10), Digits[(n % 10) + 1])

\* a number of hundredths as "<whole>.<2 digits>"
Hundredths(cs) ==
    DecStr(cs \div 100) \o <<".", Digits[((cs % 100) \div 10) + 1], Digits[(cs % 10) + 1]>>

\* f"{x:.2f}" of x = num/den milliseconds: seconds rounded to two decimals
\* (the elapsed times of the model never fall on a rounding tie)
Fmt2(num, den) == Hundredths((2 * num + 10 * den) \div (20 * den))

\* LoadStat.get_columns
get_columns(st) ==
    [header |-> [t     |-> IF st.time.type = "str" THEN st.time.s ELSE Fmt2(st.time.v, 1),
                 label |-> st.label,
                 url   |-> st.url],
     cell   |-> <<st.dandiset, st.page>>]

\* render_stats(dandiset, stats)
render_stats(dandiset, sts) ==
    [dandiset |-> dandiset,
     header   |-> [i \in 1..Len(sts) |-> get_columns(sts[i]).header],
     row      |-> [i \in 1..Len(sts) |-> get_columns(sts[i]).cell]]

----------------------------------------------------------------------------
(* __main__, after process_dandiset *)

\* Accumulate with the new results put in front
Accumulate_prepend ==
    /\ pc = "returned"
    /\ readme' = <<render_stats(ds, stats)>> \o readme
    /\ allstats' = stats \o allstats
    /\ idx' = idx + 1
    /\ pc' = "loop"
    /\ UNCHANGED <<argv, dandisets, doreadme, step, trial, t, raised, times,
                   stats, info_yaml, readme_md, driver, nsessions, live, pngs,
                   queried, login>>

\* readme += render_stats(ds, stats); allstats.extend(stats)
Accumulate ==
    /\ pc = "returned"
    /\ readme' = Append(readme, render_stats(ds, stats))
    /\ allstats' = allstats \o stats
    /\ idx' = idx + 1
    /\ pc' = "loop"
    /\ UNCHANGED <<argv, dandisets, doreadme, step, trial, t, raised, times, stats,
                   info_yaml, readme_md, driver, nsessions, live,
                   pngs, queried, login>>

\* Quit with the report written whatever doreadme is
Quit_always_report ==
    /\ pc = "loop"
    /\ idx > Len(dandisets)
    /\ live' = live \ {driver}
    /\ pc' = "report"
    /\ UNCHANGED <<argv, dandisets, doreadme, idx, step, trial, t, raised, times,
                   stats, allstats, readme, info_yaml, readme_md, driver,
                   nsessions, pngs, queried, login>>

\* driver.quit(), after the loop over the dandisets
Quit ==
    /\ pc = "loop"
    /\ idx > Len(dandisets)
    /\ live' = live \ {driver}
    /\ pc' = IF doreadme THEN "report" ELSE "done"
    /\ UNCHANGED <<argv, dandisets, doreadme, idx, step, trial, t, raised, times,
                   stats, allstats, readme, info_yaml, readme_md, driver, nsessions,
                   pngs, queried, login>>

----------------------------------------------------------------------------
(* The aggregate statistics table *)

\* the dash placeholder "\u2014"
Dash == [dash |-> TRUE]

\* page_stats with the LoadStats of every page under each key
page_stats_any_page(all, page) == SelectSeq(all, LAMBDA st : has_time(st))

\* page_stats[page] after the loop over allstats
page_stats(all, page) == SelectSeq(all, LAMBDA st : has_time(st) /\ st.page = page)

\* errors[page] after the loop over allstats
errors(all, page) ==
    LET errs == SelectSeq(all, LAMBDA st : ~has_time(st) /\ st.page = page)
    IN  [i \in 1..Len(errs) |-> errs[i].dandiset]

\* min(stats, key=attrgetter("time")): the first of the smallest
minstat(sts) ==
    sts[CHOOSE i \in 1..Len(sts) :
            /\ \A j \in 1..Len(sts) : sts[i].time.v <= sts[j].time.v
            /\ \A j \in 1..(i - 1) : sts[j].time.v # sts[i].time.v]

\* max(stats, key=attrgetter("time")): the first of the largest
maxstat(sts) ==
    sts[CHOOSE i \in 1..Len(sts) :
            /\ \A j \in 1..Len(sts) : sts[i].time.v >= sts[j].time.v
            /\ \A j \in 1..(i - 1) : sts[j].time.v # sts[i].time.v]

RECURSIVE SumSeq(_)
SumSeq(xs) == IF xs = <<>> THEN 0 ELSE Head(xs) + SumSeq(Tail(xs))

\* f"{minstat.time:.2f}s ([{minstat.dandiset}](#{minstat.dandiset}))"
time_cell(st) == [time |-> Fmt2(st.time.v, 1), dandiset |-> st.dandiset]

\* statistics.mean(times), formatted: the mean is the fraction sum/n
mean_fmt(xs) == Fmt2(SumSeq(xs), Len(xs))

\* statistics.pstdev(times, mu=mean), formatted: with
\* V = n * sum(x^2) - sum(x)^2 the deviation is sqrt(V)/n milliseconds, and it
\* rounds to the largest c hundredths with ((2c - 1) * 10 * n)^2 <= 4 * V
pstdev_fmt(xs) ==
    LET n  == Len(xs)
        V  == n * SumSeq([i \in 1..n |-> xs[i] * xs[i]]) - SumSeq(xs) * SumSeq(xs)
        hi == (SumSeq(xs) \div 10) + 1
    IN  Hundredths(Cardinality({c \in 1..hi : ((2 * c - 1) * 10 * n) * ((2 * c - 1) * 10 * n) <= 4 * V}))

\* errs_cell without the dash for an empty list
errs_cell_joined(errs) == [dandisets |-> errs]

\* ", ".join(f"[{ds}](#{ds})" for ds in errors[page]), or the dash
errs_cell(errs) == IF errs # <<>> THEN [dandisets |-> errs] ELSE Dash

\* the row of `page`: one iteration of `for page in PAGES`
stat_row(all, page) ==
    LET sts   == page_stats(all, page)
        tms   == [i \in 1..Len(sts) |-> sts[i].time.v]
    IN  [page        |-> page,
         min_cell    |-> IF sts # <<>> THEN time_cell(minstat(sts)) ELSE Dash,
         mean_stddev |-> IF sts # <<>>
                         THEN [mean |-> mean_fmt(tms), stddev |-> pstdev_fmt(tms)]
                         ELSE Dash,
         max_cell    |-> IF sts # <<>> THEN time_cell(maxstat(sts)) ELSE Dash,
         errs        |-> errs_cell(errors(all, page))]

\* table_pages as `for page in page_stats`: the pages that have a measured time
table_pages_measured(all) ==
    SelectSeq(PAGES, LAMBDA p : \E k \in 1..Len(all) : has_time(all[k]) /\ all[k].page = p)

\* the pages the table has a row for: `for page in PAGES`
table_pages(all) == PAGES

\* stat_tbl, without its two heading lines
stat_tbl(all) ==
    LET pages == table_pages(all)
    IN  [i \in 1..Len(pages) |-> stat_row(all, pages[i])]

\* if doreadme: ...; Path('README.md').write_text(stat_tbl + readme)
WriteReadme ==
    /\ pc = "report"
    /\ readme_md' = [exists |-> TRUE, stat_tbl |-> stat_tbl(allstats), sections |-> readme]
    /\ pc' = "done"
    /\ UNCHANGED <<argv, dandisets, doreadme, idx, step, trial, t, raised, times,
                   stats, allstats, readme, info_yaml, driver, nsessions, live,
                   pngs, queried, login>>

Next ==
    \/ UseArgs
    \/ GetDandisets
    \/ get_ready_driver
    \/ EnterTarget
    \/ TrialLoop
    \/ Navigate
    \/ Act
    \/ Wait
    \/ ExceptTimeout
    \/ ExceptWebDriver
    \/ ExceptException
    \/ Else
    \/ SaveScreenshot
    \/ RecordStep
    \/ WriteInfo
    \/ Accumulate
    \/ Quit
    \/ WriteReadme

Spec == Init /\ [][Next]_vars

----------------------------------------------------------------------------
(* Properties *)

\* a session-level driver fault: a WebDriverException that is not a timeout
SessionFault(exc) == IsWebDriverException(exc) /\ ~IsTimeoutException(exc)

\* the calls of the try block
TryCalls == {"navigate", "act", "wait"}

\* the calls made while a step is processed
StepCalls == TryCalls \cup {"save_screenshot"}

ValidTime(tm) ==
    \/ tm.type = "float" /\ tm.v >= 0
    \/ tm.type = "str" /\ tm.s # <<>>

\* C1: every recorded time (of the LoadStats appended and of the persisted
\* times mappings) is a non-negative float or a non-empty string.
C1_RecordedTimeValid ==
    /\ \A i \in 1..Len(stats) : ValidTime(stats[i].time)
    /\ \A i \in 1..Len(allstats) : ValidTime(allstats[i].time)
    /\ \A d \in Dandisets :
          info_yaml[d].exists =>
              \A p \in DOMAIN info_yaml[d].times : ValidTime(info_yaml[d].times[p])

\* C2: whenever the run has ended after the session was established, normally
\* or by a propagating exception, quit() was called on the session.
C2_SessionClosedOnExit ==
    (pc \in {"done", "aborted"} /\ driver # 0) => driver \notin live

\* C3: a session-level driver fault raised by navigate/act/wait propagates at
\* once: no retry, no new session, no LoadStat for the step, and nothing is
\* processed after it.
C3_SessionFaultPropagates ==
    [][ /\ (pc = "except" /\ SessionFault(raised)) =>
             /\ pc' = "aborted"
             /\ UNCHANGED <<trial, step, idx, driver, nsessions, live, times, stats,
                            allstats, info_yaml, readme, readme_md>>
        /\ pc = "aborted" => UNCHANGED vars ]_vars

C3_Witness ==
    /\ pc = "aborted"
    /\ SessionFault(raised)
    /\ raised.at = "act"
    /\ idx = 2
    /\ Len(stats) = 1
    /\ nsessions = 1

\* C4: a failure raised while a step is processed (navigate, act, wait, the
\* settle delay or the screenshot) aborts the run only if it is a session-level
\* driver fault.
C4_OnlySessionFaultAborts ==
    (pc = "aborted" /\ raised.at \in StepCalls) => SessionFault(raised)

\* s is m without its trailing whitespace
IsStripped(s, m) ==
    /\ Len(s) <= Len(m)
    /\ \A i \in 1..Len(s) : s[i] = m[i]
    /\ \A i \in (Len(s) + 1)..Len(m) : m[i] \in Whitespace
    /\ s # <<>> => s[Len(s)] \notin Whitespace

\* C5 as stated: the time is "timeout" exactly when a timeout signal was
\* raised, the stringified error exactly when another non-driver exception was
\* raised, and a float exactly when navigate+act+wait completed cleanly.
C5_ClassificationExact ==
    pc = "record" =>
        /\ t = TIMEOUT <=> IsTimeoutException(raised)
        /\ (t.type = "str" /\ t.s = raised.msg) <=> raised.cls = "Exception"
        /\ t.type = "float" <=> raised = NoExc

\* C5, amended: the time is "timeout" whenever a timeout signal was raised by
\* navigate, act or wait, and such a timeout never aborts the run as a driver
\* fault; it is the stringified error without its trailing whitespace whenever
\* another non-driver exception was raised; it is a float exactly when
\* navigate+act+wait completed cleanly.
C5_Classification ==
    /\ pc = "record" =>
          /\ IsTimeoutException(raised) => t = TIMEOUT
          /\ raised.cls = "Exception" => (t.type = "str" /\ IsStripped(t.s, raised.msg))
          /\ t.type = "float" <=> raised = NoExc
    /\ (pc = "aborted" /\ raised.at \in TryCalls) => ~IsTimeoutException(raised)

C5_Witness ==
    /\ pc = "record"
    /\ raised.cls = "Exception"
    /\ raised.at = "act"
    /\ t = TIMEOUT

\* C6: a step is attempted at most MaxTrials times, and an attempt that ends
\* in a timeout, an unexpected exception or a clean completion is the last of
\* its step: control goes on to recording the step (or out of the run), and
\* from there to the first attempt of the next step or to the end of the
\* target, never back to this step.
C6_AttemptLoopEnds ==
    [][ /\ trial' <= MaxTrials
        /\ (pc = "except" /\ ~SessionFault(raised)) => pc' = "record"
        /\ pc = "else" => pc' = "screenshot"
        /\ pc = "screenshot" => pc' \in {"record", "aborted"}
        /\ pc = "record" =>
              \/ pc' = "trial" /\ step' = step + 1 /\ trial' = 0
              \/ pc' = "write" /\ step = Len(StepSpecs) ]_vars

C6_Witness ==
    /\ pc = "record"
    /\ IsTimeoutException(raised)
    /\ raised.at = "wait"
    /\ trial = 1
    /\ step = 2

\* C7: when process_dandiset has returned, it returned three LoadStats of the
\* dandiset, one per page in the order of PAGES, and the info.yaml of the
\* dandiset holds a times mapping with exactly these pages and the times of
\* these LoadStats; info.yaml is written only once all three steps are
\* recorded.
C7_ThreeStatsAndRecord ==
    /\ [](pc = "returned" =>
             /\ Len(stats) = 3
             /\ \A i \in 1..3 : stats[i].page = PAGES[i] /\ stats[i].dandiset = ds
             /\ info_yaml[ds].exists
             /\ DOMAIN info_yaml[ds].times = {PAGES[i] : i \in 1..3}
             /\ \A i \in 1..3 : info_yaml[ds].times[PAGES[i]] = stats[i].time)
    /\ [][info_yaml' # info_yaml =>
             /\ Len(stats) = 3
             /\ \A i \in 1..3 : stats[i].page = PAGES[i]
             /\ pc' = "returned"]_vars

C7_Witness ==
    /\ pc = "returned"
    /\ idx = 2
    /\ stats[1].time.type = "float"
    /\ stats[2].time = TIMEOUT
    /\ stats[3].time = Str(<<"x">>)

\* the positions in allstats of the LoadStats of page p with a float time
NumIdx(p) ==
    {k \in 1..Len(allstats) : allstats[k].page = p /\ allstats[k].time.type = "float"}

\* the positions in allstats of the LoadStats of page p with a str time
ErrIdx(p) ==
    {k \in 1..Len(allstats) : allstats[k].page = p /\ allstats[k].time.type = "str"}

RECURSIVE SumTimes(_)
SumTimes(S) ==
    IF S = {} THEN 0
    ELSE LET k == CHOOSE k \in S : TRUE
         IN  allstats[k].time.v + SumTimes(S \ {k})

RECURSIVE SumSquares(_)
SumSquares(S) ==
    IF S = {} THEN 0
    ELSE LET k == CHOOSE k \in S : TRUE
         IN  allstats[k].time.v * allstats[k].time.v + SumSquares(S \ {k})

\* c hundredths of a second is num/den milliseconds rounded
Rounds(c, num, den) ==
    /\ 2 * (10 * c * den - num) <= 10 * den
    /\ 2 * (num - 10 * c * den) <= 10 * den

\* c hundredths of a second is sqrt(V)/n milliseconds rounded
RoundsRoot(c, V, n) ==
    /\ c > 0 => ((2 * c - 1) * 10 * n) * ((2 * c - 1) * 10 * n) <= 4 * V
    /\ 4 * V <= ((2 * c + 1) * 10 * n) * ((2 * c + 1) * 10 * n)

\* the hundredths a time of the model can round to
Cents == 0..(((CHOOSE e \in Elapsed : \A f \in Elapsed : f <= e) \div 10) + 1)

\* the README.md that was written has a table
TableWritten == readme_md.exists

\* C8: the statistics table written in full-catalog mode has exactly one row
\* per page of PAGES, in the order of PAGES.
C8_OneRowPerPage ==
    TableWritten =>
        /\ Len(readme_md.stat_tbl) = Len(PAGES)
        /\ \A i \in 1..Len(PAGES) : readme_md.stat_tbl[i].page = PAGES[i]

C8_Witness ==
    /\ TableWritten
    /\ Len(dandisets) = 2
    /\ NumIdx("landing") = {}
    /\ Cardinality(NumIdx("edit-metadata")) = 1
    /\ ErrIdx("view-data") = {}

\* C9: in each row of the table written, min, mean, stddev and max are those
\* of the float times recorded for the page, the min and max cells name a
\* dandiset with that time, and the error cell lists, in order, the dandisets
\* whose time for the page is a str; every LoadStat of the page is in one of
\* the two groups.
C9_RowStatistics ==
    TableWritten =>
        \A i \in 1..Len(readme_md.stat_tbl) :
            LET row == readme_md.stat_tbl[i]
                N   == NumIdx(row.page)
                E   == ErrIdx(row.page)
                n   == Cardinality(N)
                S   == SumTimes(N)
                V   == n * SumSquares(N) - S * S
            IN  /\ N \cup E = {k \in 1..Len(allstats) : allstats[k].page = row.page}
                /\ N # {} =>
                      /\ row.min_cell # Dash
                      /\ \E k \in N :
                            /\ \A j \in N : allstats[k].time.v <= allstats[j].time.v
                            /\ row.min_cell.dandiset = allstats[k].dandiset
                            /\ \E c \in Cents :
                                  /\ Rounds(c, allstats[k].time.v, 1)
                                  /\ row.min_cell.time = Hundredths(c)
                      /\ row.max_cell # Dash
                      /\ \E k \in N :
                            /\ \A j \in N : allstats[k].time.v >= allstats[j].time.v
                            /\ row.max_cell.dandiset = allstats[k].dandiset
                            /\ \E c \in Cents :
                                  /\ Rounds(c, allstats[k].time.v, 1)
                                  /\ row.max_cell.time = Hundredths(c)
                      /\ row.mean_stddev # Dash
                      /\ \E c \in Cents :
                            /\ Rounds(c, S, n)
                            /\ row.mean_stddev.mean = Hundredths(c)
                      /\ \E c \in Cents :
                            /\ RoundsRoot(c, V, n)
                            /\ row.mean_stddev.stddev = Hundredths(c)
                /\ E # {} =>
                      /\ row.errs # Dash
                      /\ Len(row.errs.dandisets) = Cardinality(E)
                      /\ \A k \in E :
                            row.errs.dandisets[Cardinality({j \in E : j <= k})]
                                = allstats[k].dandiset

C9_Witness ==
    /\ TableWritten
    /\ Len(dandisets) = 2
    /\ allstats[2].time = Float(40)
    /\ allstats[5].time = TIMEOUT
    /\ allstats[3].time = Float(1734)
    /\ allstats[6].time = Float(40)
    /\ readme_md.stat_tbl[3].min_cell.dandiset = "000002"

\* C10: a row of a page with no float time has the dash in its min, mean and
\* max cells and lists every dandiset of the run in its error cell; a row of
\* a page with no str time has the dash in its error cell.
C10_DashCells ==
    TableWritten =>
        \A i \in 1..Len(readme_md.stat_tbl) :
            LET row == readme_md.stat_tbl[i]
            IN  /\ NumIdx(row.page) = {} =>
                      /\ row.min_cell = Dash
                      /\ row.mean_stddev = Dash
                      /\ row.max_cell = Dash
                      /\ dandisets # <<>> => row.errs = [dandisets |-> dandisets]
                /\ ErrIdx(row.page) = {} => row.errs = Dash

C10_Witness ==
    /\ TableWritten
    /\ Len(dandisets) = 2
    /\ NumIdx("edit-metadata") = {}
    /\ ErrIdx("view-data") = {}
    /\ readme_md.stat_tbl[2].errs = [dandisets |-> <<"000001", "000002">>]
    /\ readme_md.stat_tbl[3].errs = Dash

\* the positions inside process_dandiset, and just after its return
InTarget ==
    {"trial", "navigate", "act", "wait", "except", "else", "screenshot", "record",
     "write", "returned"}

\* C11: README.md is written exactly by the runs without positional arguments
\* that processed all their dandisets; with positional arguments the
\* dandisets are the arguments and the catalog is not queried; with none they
\* are the identifiers the catalog query returned.
C11_ReportIffCatalogMode ==
    /\ readme_md.exists <=> (pc = "done" /\ argv = <<>>)
    /\ pc = "done" =>
          /\ idx = Len(dandisets) + 1
          /\ Len(allstats) = 3 * Len(dandisets)
    /\ (argv # <<>> /\ pc # "start") => (dandisets = argv /\ queried = None)
    /\ (argv = <<>> /\ pc # "start" /\ raised.at # "get_dandisets") =>
          /\ queried # None
          /\ {dandisets[i] : i \in 1..Len(dandisets)} = queried.v
          /\ Len(dandisets) = Cardinality(queried.v)

C11_Witness ==
    /\ pc = "done"
    /\ Len(argv) = 1
    /\ Len(allstats) = 3
    /\ allstats[3].time.type = "float"
    /\ ~readme_md.exists

\* C12: login clicks the Authorize control at most once.
C12_AuthorizeClickedAtMostOnce == login.authorized <= 1

\* label contains "log in", whatever the case of its letters
ContainsLogIn(label) ==
    \E k \in 0..(Len(label) - 6) :
        \A j \in 1..6 :
            label[k + j] \in {<<"l", "o", "g", " ", "i", "n">>[j],
                              <<"L", "O", "G", " ", "I", "N">>[j]}

\* C13: once the text of the login button is read, login fails with an
\* AssertionError exactly when the text does not contain "log in" in any
\* case; when it fails, the button was not clicked and no credentials were
\* entered or submitted.
C13_LoginButtonCheck ==
    /\ login.label # <<>> =>
          ((pc = "aborted" /\ raised.cls = "AssertionError") <=> ~ContainsLogIn(login.label))
    /\ raised.cls = "AssertionError" =>
          /\ ~login.clicked
          /\ ~login.credentials
          /\ ~login.submitted
    /\ login.clicked => ContainsLogIn(login.label)

C13_Witness ==
    /\ pc = "aborted"
    /\ raised.cls = "AssertionError"
    /\ login.label = <<"S", "i", "g", "n", " ", "i", "n">>

\* C15: removing the stale screenshot at the start of an attempt never raises:
\* whether or not the file exists, the attempt goes on to the try block, the
\* file is gone, and nothing else of the run has changed.
C15_UnlinkIdempotent ==
    [][ (pc = "trial" /\ trial < MaxTrials) =>
            /\ pc' = "navigate"
            /\ raised' = NoExc
            /\ pngs' = pngs \ {png(ds, spec.page)}
            /\ UNCHANGED <<t, times, stats, allstats, step, idx, readme, info_yaml,
                           readme_md, driver, nsessions, live>> ]_vars

C15_Witness ==
    /\ pc = "navigate"
    /\ idx = 1
    /\ step = 1
    /\ png(ds, "edit-metadata") \notin pngs

\* C16 (save_screenshot either writes the file or raises): while a dandiset is
\* processed, the screenshot of each step recorded
\* for it exists exactly if the recorded time is a float; a screenshot appears
\* only by save_screenshot of the current step, after the elapsed time was
\* assigned and the settle delay passed.
C16_ScreenshotIffTime ==
    /\ [](pc \in InTarget =>
             /\ \A i \in 1..Len(stats) :
                   png(ds, stats[i].page) \in pngs <=> stats[i].time.type = "float"
             /\ pc = "record" =>
                   (png(ds, spec.page) \in pngs <=> t.type = "float"))
    /\ [][ /\ \A f \in AllPngs :
                 (f \notin pngs /\ f \in pngs') =>
                     /\ pc = "screenshot"
                     /\ t.type = "float"
                     /\ f = png(ds, spec.page)
           /\ (pc' = "screenshot" /\ pc # "screenshot") => pc = "else" ]_vars

C16_Witness ==
    /\ pc = "record"
    /\ idx = 1
    /\ step = 1
    /\ t = TIMEOUT
    /\ png(ds, "view-data") \in pngs
    /\ png(ds, "landing") \notin pngs

\* C17: allstats is, in the order of dandisets, the three LoadStats of each
\* dandiset processed, in the order of PAGES; while a dandiset is processed
\* all the earlier ones are accumulated in full and no later one is begun; the
\* sections of the report follow the same order.
C17_SequentialOrder ==
    /\ \A k \in 1..Len(allstats) :
          /\ allstats[k].dandiset = dandisets[((k - 1) \div 3) + 1]
          /\ allstats[k].page = PAGES[((k - 1) % 3) + 1]
    /\ \A i \in 1..Len(readme) : readme[i].dandiset = dandisets[i]
    /\ pc \in InTarget =>
          /\ Len(allstats) = 3 * (idx - 1)
          /\ Len(readme) = idx - 1
          /\ \A i \in 1..Len(stats) :
                stats[i].dandiset = dandisets[idx] /\ stats[i].page = PAGES[i]
    /\ readme_md.exists =>
          /\ Len(readme_md.sections) = Len(dandisets)
          /\ \A i \in 1..Len(dandisets) : readme_md.sections[i].dandiset = dandisets[i]

C17_Witness ==
    /\ pc = "done"
    /\ dandisets = <<"000001", "000002">>
    /\ Len(allstats) = 6
    /\ allstats[4].dandiset = "000002"
    /\ readme_md.exists

\* C18: at most one session is ever constructed; whenever a dandiset is being
\* processed that one session was constructed and logged in and is the one
\* __main__ holds; once assigned, the driver of __main__ is never replaced.
C18_OneSession ==
    /\ [](/\ nsessions <= 1
          /\ pc \in InTarget \cup {"loop", "report", "done"} =>
                (nsessions = 1 /\ driver = 1))
    /\ [][ /\ driver # 0 => driver' = driver
           /\ driver' # driver =>
                 /\ pc = "login_done"
                 /\ login.submitted
                 /\ driver' = nsessions ]_vars

C18_Witness ==
    /\ pc = "navigate"
    /\ idx = 2
    /\ step = 3
    /\ driver = 1
    /\ nsessions = 1

\* the position in dandisets of the last processing of d completed before
\* the current one
LastCompleted(d) ==
    CHOOSE i \in 1..(idx - 1) :
        /\ dandisets[i] = d
        /\ \A j \in (i + 1)..(idx - 1) : dandisets[j] # d

\* C19: when the run is aborted by an exception raised while a step of a
\* dandiset is processed, README.md is not written, no info.yaml was written
\* by this processing of the dandiset, and every dandiset completed before has
\* its info.yaml with the times recorded for it; no info.yaml changes except
\* by the completed processing of its dandiset.
C19_AbortLeavesRecords ==
    /\ []((pc = "aborted" /\ raised.at \in StepCalls) =>
             /\ ~readme_md.exists
             /\ \A d \in Dandisets :
                   IF \E i \in 1..(idx - 1) : dandisets[i] = d
                   THEN /\ info_yaml[d].exists
                        /\ \A j \in 1..3 :
                              info_yaml[d].times[PAGES[j]]
                                  = allstats[3 * (LastCompleted(d) - 1) + j].time
                   ELSE ~info_yaml[d].exists)
    /\ [][ \A d \in Dandisets :
               info_yaml'[d] # info_yaml[d] =>
                   (pc = "write" /\ pc' = "returned" /\ d = ds) ]_vars

C19_Witness ==
    /\ pc = "aborted"
    /\ raised.at = "wait"
    /\ idx = 2
    /\ step = 3
    /\ doreadme
    /\ info_yaml[dandisets[1]].exists
    /\ ~info_yaml[dandisets[2]].exists

====
